---------------------------- MODULE Spec2Model ----------------------------
(***************************************************************************)
(* Model of backend/graph_utils.py (build_adjacency_list, has_cycle_dfs,   *)
(* detect_cycles, is_dag) and of models.py's WorkflowPipeline edge         *)
(* reference validator.                                                    *)
(*                                                                         *)
(* A behaviour fixes one input (a node list and an edge list), constructs  *)
(* a WorkflowPipeline from it, calls build_adjacency_list on it and then   *)
(* makes the calls listed in `script` one after the other.  The            *)
(* depth-first traversal is modelled step by step with an explicit stack   *)
(* of has_cycle_dfs frames; the iteration order of the Python set of root  *)
(* ids is a nondeterministic choice.                                       *)
(***************************************************************************)
EXTENDS Integers, Sequences, FiniteSets, TLC

VARIABLES
    nodes,            \* input: list of node records (None or WorkflowNode)
    edges,            \* input: list of edge records (None or WorkflowEdge)
    script,           \* the calls the caller makes: <<[fn, edges], ...>>
    call,             \* index in script of the current / next call
    pc,               \* control point (see the actions)
    pipeline,         \* outcome of WorkflowPipeline(nodes=..., edges=...)
    adj_list,         \* value returned by build_adjacency_list(nodes, edges)
    adjacency_list,   \* detect_cycles local (line 131)
    visited,          \* detect_cycles local (line 134)
    recursion_stack,  \* detect_cycles local (line 135)
    roots_left,       \* node ids the for loop of line 141 has not yet yielded
    frames,           \* active has_cycle_dfs calls, innermost last
    results,          \* values returned by the calls made so far
    entered,          \* per node id: has_cycle_dfs entries in the current call
    error             \* exception raised, "none" if none

vars == <<nodes, edges, script, call, pc, pipeline, adj_list, adjacency_list,
          visited, recursion_stack, roots_left, frames, results, entered, error>>

-----------------------------------------------------------------------------
(* Bounds of the explored inputs *)

MaxEdges == 3

MaxMessy == 2

MaxVariantEdges == 2

-----------------------------------------------------------------------------
(* Python values *)

\* None, where a WorkflowNode is expected
NoneNode == [present |-> FALSE, id |-> ""]

\* None, where a WorkflowEdge is expected
NoneEdge == [present |-> FALSE, id |-> "", source |-> "", target |-> ""]

WorkflowNode(i) == [present |-> TRUE, id |-> i]

WorkflowEdge(i, s, t) == [present |-> TRUE, id |-> i, source |-> s, target |-> t]

\* bool(x) of an object reference: None is falsy, a model instance is truthy
Truthy(obj) == obj.present

\* bool(s) of a str: the empty string is falsy
TruthyStr(s) == s # ""

\* obj.<field> raises AttributeError when obj is None
AttributeError(obj) == ~obj.present

Range(s) == {s[i] : i \in DOMAIN s}

SeqsUpTo(S, n) == UNION {[1..k -> S] : k \in 0..n}


Min(S) == CHOOSE x \in S : \A y \in S : x <= y

-----------------------------------------------------------------------------
(* models.py: WorkflowPipeline *)

\* nodes: List[WorkflowNode], edges: List[WorkflowEdge]: a None entry fails
\* field validation before the model validator runs
fields_valid(ns, es) ==
    /\ \A i \in DOMAIN ns : Truthy(ns[i])
    /\ \A i \in DOMAIN es : Truthy(es[i])

\* the ids the validator looks edges up in (line 101): no filtering of ""
pipeline_node_ids(ns) == {ns[i].id : i \in DOMAIN ns}

\* the validator's loop without the target test of lines 105-106
validate_sources_only(ns, es) ==
    LET node_ids == pipeline_node_ids(ns)
        bad == {i \in DOMAIN es : es[i].source \notin node_ids}
    IN  IF bad = {}
        THEN [outcome |-> "ok", edge |-> 0, field |-> "", missing |-> ""]
        ELSE [outcome |-> "ValueError", edge |-> Min(bad),
              field |-> "source", missing |-> es[Min(bad)].source]

\* the validator's loop (lines 102-107): the first edge with a missing
\* endpoint raises, its source being checked before its target
validate_edge_references(ns, es) ==
    LET node_ids == pipeline_node_ids(ns)
        bad == {i \in DOMAIN es :
                   es[i].source \notin node_ids \/ es[i].target \notin node_ids}
    IN  IF bad = {}
        THEN [outcome |-> "ok", edge |-> 0, field |-> "", missing |-> ""]
        ELSE LET i == Min(bad)
             IN  IF es[i].source \notin node_ids
                 THEN [outcome |-> "ValueError", edge |-> i,
                       field |-> "source", missing |-> es[i].source]
                 ELSE [outcome |-> "ValueError", edge |-> i,
                       field |-> "target", missing |-> es[i].target]

\* WorkflowPipeline(nodes=ns, edges=es)
WorkflowPipeline(ns, es) ==
    IF fields_valid(ns, es)
    THEN validate_edge_references(ns, es)
    ELSE [outcome |-> "TypeError", edge |-> 0, field |-> "", missing |-> ""]

-----------------------------------------------------------------------------
(* graph_utils.py: build_adjacency_list *)

\* `node and node.id` (lines 24 and 124)
node_passes(node) == Truthy(node) /\ TruthyStr(node.id)

\* `node and node.id` reads node.id only when node is truthy
node_test_raises(node) == Truthy(node) /\ AttributeError(node)

\* line 24
valid_node_ids(ns) == {ns[i].id : i \in {j \in DOMAIN ns : node_passes(ns[j])}}

\* `not edge or not edge.id` (line 30)
edge_skipped(edge) == ~Truthy(edge) \/ ~TruthyStr(edge.id)

\* line 30 reads edge.id only when edge is truthy; lines 33-34 read
\* edge.source and edge.target of every edge that was not skipped
edge_test_raises(edge) ==
    \/ Truthy(edge) /\ AttributeError(edge)
    \/ ~edge_skipped(edge) /\ AttributeError(edge)

\* line 37 testing the target only
edge_accepted_target_only(edge, node_ids) == edge.target \in node_ids

\* line 37 testing the source only
edge_accepted_source_only(edge, node_ids) == edge.source \in node_ids

\* line 37
edge_accepted(edge, node_ids) ==
    edge.source \in node_ids /\ edge.target \in node_ids

\* lines 38-40 putting the target in front (insert(0, target))
append_target_in_front(adjacency, source, target) ==
    LET withKey == IF source \notin DOMAIN adjacency
                   THEN adjacency @@ (source :> <<>>)
                   ELSE adjacency
    IN  [withKey EXCEPT ![source] = <<target>> \o @]

\* lines 38-40
append_target(adjacency, source, target) ==
    LET withKey == IF source \notin DOMAIN adjacency
                   THEN adjacency @@ (source :> <<>>)
                   ELSE adjacency
    IN  [withKey EXCEPT ![source] = Append(@, target)]

\* the loop of lines 29-40 from edge i on
RECURSIVE add_edges(_, _, _, _)
add_edges(adjacency, node_ids, es, i) ==
    IF i > Len(es) THEN adjacency
    ELSE IF edge_skipped(es[i]) THEN add_edges(adjacency, node_ids, es, i + 1)
    ELSE IF edge_accepted(es[i], node_ids)
         THEN add_edges(append_target(adjacency, es[i].source, es[i].target),
                        node_ids, es, i + 1)
         ELSE add_edges(adjacency, node_ids, es, i + 1)

build_adjacency_list(ns, es) ==
    LET node_ids == valid_node_ids(ns)
    IN  add_edges([n \in node_ids |-> <<>>], node_ids, es, 1)

build_adjacency_list_raises(ns, es) ==
    \/ \E i \in DOMAIN ns : node_test_raises(ns[i])
    \/ \E i \in DOMAIN es : edge_test_raises(es[i])

-----------------------------------------------------------------------------
(* graph_utils.py: detect_cycles, has_cycle_dfs, is_dag *)

\* `not nodes or len(nodes) == 0` (line 120)
no_nodes(ns) == Len(ns) = 0

\* line 124 without its `node.id` test
valid_nodes_of_any_id(ns) == SelectSeq(ns, Truthy)

\* line 124
valid_nodes_of(ns) == SelectSeq(ns, node_passes)

\* `edge and edge.id and edge.source and edge.target` (line 125)
edge_passes(edge) ==
    /\ Truthy(edge)
    /\ TruthyStr(edge.id)
    /\ TruthyStr(edge.source)
    /\ TruthyStr(edge.target)

\* line 125
valid_edges_of(es) == SelectSeq(es, edge_passes)

\* lines 124, 125 and 139 read attributes only of truthy objects
filter_raises(ns, es) ==
    \/ \E i \in DOMAIN ns : node_test_raises(ns[i])
    \/ \E i \in DOMAIN es : Truthy(es[i]) /\ AttributeError(es[i])
    \/ \E i \in DOMAIN valid_nodes_of(ns) : AttributeError(valid_nodes_of(ns)[i])

\* line 139
root_ids(valid_nodes) == {valid_nodes[i].id : i \in DOMAIN valid_nodes}

\* adjacency_list.get(node_id, []) (line 70)
neighbors_of(adjacency, node_id) ==
    IF node_id \in DOMAIN adjacency THEN adjacency[node_id] ELSE <<>>

\* line 66 left out
visited_add_missing(vis, node_id) == vis

\* line 134 keeping the set of an earlier call (as a module-level or
\* default-argument set would)
new_visited_leftover == visited

\* `visited: Set[str] = set()` (line 134)
new_visited == {}

\* `recursion_stack: Set[str] = set()` (line 135)
new_recursion_stack == {}

\* visited.add(node_id) (line 66)
visited_add(vis, node_id) == vis \cup {node_id}

\* line 67 left out
stack_add_missing(stack, node_id) == stack

\* recursion_stack.add(node_id) (line 67)
stack_add(stack, node_id) == stack \cup {node_id}

\* line 82 emptying the recursion stack
stack_remove_clears(stack, node_id) == {}

\* recursion_stack.remove(node_id) (line 82); KeyError if absent
stack_remove(stack, node_id) == stack \ {node_id}

\* line 73 testing the visited set instead of the recursion stack
is_back_edge_visited(neighbor, stack) == neighbor \in visited

\* `neighbor in recursion_stack` (line 73)
is_back_edge(neighbor, stack) == neighbor \in stack

\* line 77 always true: a neighbor that is not on the stack is entered again
is_unvisited_always(neighbor, vis) == TRUE

\* `neighbor not in visited` (line 77)
is_unvisited(neighbor, vis) == neighbor \notin vis

\* lines 78 and 143 calling has_cycle_dfs without looking at its result
caller_ignores_result(found) == FALSE

\* `if has_cycle_dfs(...): return True` (lines 78-79 and 143-144)
caller_returns_true(found) == found

\* line 142 starting a traversal from the first root only
root_unvisited_first_only(node_id, vis) == vis = {}

\* `node_id not in visited` (line 142)
root_unvisited(node_id, vis) == node_id \notin vis

\* line 168 without its `not`
is_dag_not_negated(has_cycle) == has_cycle

\* `not detect_cycles(nodes, edges)` (line 168)
is_dag(has_cycle) == ~has_cycle

-----------------------------------------------------------------------------
(* The inputs explored *)

\* ids of the graphs explored, as in the tests ('1', '2', '3')
GraphIds == {"1", "2", "3"}

\* the node lists of the graphs explored: [], ['1'], ['1','2'], ['1','2','3']
GraphNodeLists ==
    { <<>>,
      <<WorkflowNode("1")>>,
      <<WorkflowNode("1"), WorkflowNode("2")>>,
      <<WorkflowNode("1"), WorkflowNode("2"), WorkflowNode("3")>> }

\* well-formed edges between GraphIds (dangling when the node list is short)
GraphEdges == {WorkflowEdge("e", s, t) : s \in GraphIds, t \in GraphIds}

\* ids of the malformed inputs explored
MessyIds == {"", "1", "2"}

MessyNodes == {NoneNode} \cup {WorkflowNode(i) : i \in MessyIds}

\* two edges with an empty id that would each close a cycle if they were
\* accepted
EmptyIdEdges == {WorkflowEdge("", "1", "1"), WorkflowEdge("", "2", "1")}

\* None, EmptyIdEdges, and every edge with a non-empty id between MessyIds
MessyEdges ==
    {NoneEdge} \cup EmptyIdEdges \cup
    {WorkflowEdge("e", s, t) : s \in MessyIds, t \in MessyIds}

IdValues == GraphIds \cup MessyIds

\* the caller of main.py lines 110-111 and of the tests: detect_cycles, then
\* is_dag, on the same arguments
PairScript(es) ==
    << [fn |-> "detect_cycles", edges |-> es],
       [fn |-> "is_dag", edges |-> es] >>

NoPipeline == [outcome |-> "none", edge |-> 0, field |-> "", missing |-> ""]

InitRest ==
    /\ call = 1
    /\ pc = "construct"
    /\ pipeline = NoPipeline
    /\ adj_list = <<>>
    /\ adjacency_list = <<>>
    /\ visited = {}
    /\ recursion_stack = {}
    /\ roots_left = {}
    /\ frames = <<>>
    /\ results = <<>>
    /\ entered = [n \in IdValues |-> 0]
    /\ error = "none"

InitInputs ==
    \/ /\ nodes \in GraphNodeLists
       /\ edges \in SeqsUpTo(GraphEdges, MaxEdges)
    \/ /\ nodes \in SeqsUpTo(MessyNodes, MaxMessy)
       /\ edges \in SeqsUpTo(MessyEdges, MaxMessy)

Init ==
    /\ InitInputs
    /\ script = PairScript(edges)
    /\ InitRest

-----------------------------------------------------------------------------
(* The caller *)

\* WorkflowPipeline(nodes=nodes, edges=edges)
ConstructPipeline ==
    /\ pc = "construct"
    /\ pipeline' = WorkflowPipeline(nodes, edges)
    /\ pc' = "build"
    /\ UNCHANGED <<nodes, edges, script, call, adj_list, adjacency_list, visited,
                   recursion_stack, roots_left, frames, results, entered, error>>

\* adj_list = build_adjacency_list(nodes, edges), as test_build_adjacency_list
CallBuildAdjacencyList ==
    /\ pc = "build"
    /\ IF build_adjacency_list_raises(nodes, edges)
       THEN /\ error' = "AttributeError"
            /\ pc' = "raised"
            /\ UNCHANGED adj_list
       ELSE /\ adj_list' = build_adjacency_list(nodes, edges)
            /\ pc' = "call"
            /\ UNCHANGED error
    /\ UNCHANGED <<nodes, edges, script, call, pipeline, adjacency_list, visited,
                   recursion_stack, roots_left, frames, results, entered>>

\* detect_cycles returns has_cycle; the caller gets it, through is_dag
\* (line 168) when that is the function it called
Return(has_cycle) ==
    /\ results' = Append(results, IF script[call].fn = "is_dag"
                                  THEN is_dag(has_cycle)
                                  ELSE has_cycle)
    /\ call' = call + 1
    /\ pc' = IF call = Len(script) THEN "done" ELSE "call"

-----------------------------------------------------------------------------
(* detect_cycles *)

\* has_cycle_dfs(adjacency_list, node_id, visited, recursion_stack) is
\* entered: lines 66, 67 and 70
Enter(node_id, callers) ==
    /\ visited' = visited_add(visited, node_id)
    /\ recursion_stack' = stack_add(recursion_stack, node_id)
    /\ frames' = Append(callers,
                        [node_id |-> node_id,
                         neighbors |-> neighbors_of(adjacency_list, node_id),
                         i |-> 1])
    /\ entered' = [entered EXCEPT ![node_id] = @ + 1]

\* lines 119-139: the early returns, the filters, the adjacency list and
\* the fresh visited and recursion_stack
DetectCyclesBegin ==
    /\ pc = "call"
    /\ LET es == script[call].edges
           valid_nodes == valid_nodes_of(nodes)
           valid_edges == valid_edges_of(es)
       IN  IF no_nodes(nodes)
           THEN /\ Return(FALSE)
                /\ UNCHANGED <<adjacency_list, visited, recursion_stack,
                               roots_left, entered, error>>
           ELSE IF filter_raises(nodes, es)
           THEN /\ error' = "AttributeError"
                /\ pc' = "raised"
                /\ UNCHANGED <<adjacency_list, visited, recursion_stack,
                               roots_left, entered, results, call>>
           ELSE IF Len(valid_nodes) = 0
           THEN /\ Return(FALSE)
                /\ UNCHANGED <<adjacency_list, visited, recursion_stack,
                               roots_left, entered, error>>
           ELSE IF build_adjacency_list_raises(valid_nodes, valid_edges)
           THEN /\ error' = "AttributeError"
                /\ pc' = "raised"
                /\ UNCHANGED <<adjacency_list, visited, recursion_stack,
                               roots_left, entered, results, call>>
           ELSE /\ adjacency_list' = build_adjacency_list(valid_nodes, valid_edges)
                /\ visited' = new_visited
                /\ recursion_stack' = new_recursion_stack
                /\ roots_left' = root_ids(valid_nodes)
                /\ entered' = [n \in IdValues |-> 0]
                /\ pc' = "roots"
                /\ UNCHANGED <<results, call, error>>
    /\ UNCHANGED <<nodes, edges, script, pipeline, adj_list, frames>>

\* one iteration of `for node_id in node_ids` (lines 141-143): the set
\* yields its elements in an order the program does not control
RootLoop ==
    /\ pc = "roots"
    /\ \E node_id \in roots_left :
          /\ roots_left' = roots_left \ {node_id}
          /\ IF root_unvisited(node_id, visited)
             THEN /\ Enter(node_id, <<>>)
                  /\ pc' = "dfs"
             ELSE UNCHANGED <<visited, recursion_stack, frames, entered, pc>>
    /\ UNCHANGED <<nodes, edges, script, call, pipeline, adj_list,
                   adjacency_list, results, error>>

\* one iteration of `for neighbor in neighbors` (lines 71-79) in the
\* innermost has_cycle_dfs
ExamineNeighbor ==
    /\ pc = "dfs"
    /\ LET top == frames[Len(frames)]
       IN  /\ top.i <= Len(top.neighbors)
           /\ LET neighbor == top.neighbors[top.i]
                  advanced == [frames EXCEPT ![Len(frames)].i = @ + 1]
              IN  IF is_back_edge(neighbor, recursion_stack)
                  THEN \* line 74: return True
                       /\ frames' = SubSeq(frames, 1, Len(frames) - 1)
                       /\ pc' = "ret_true"
                       /\ UNCHANGED <<visited, recursion_stack, entered>>
                  ELSE IF is_unvisited(neighbor, visited)
                  THEN \* line 78: the recursive call
                       /\ Enter(neighbor, advanced)
                       /\ UNCHANGED pc
                  ELSE /\ frames' = advanced
                       /\ UNCHANGED <<visited, recursion_stack, entered, pc>>
    /\ UNCHANGED <<nodes, edges, script, call, pipeline, adj_list,
                   adjacency_list, roots_left, results, error>>

\* the loop of the innermost has_cycle_dfs is exhausted: lines 82-83
Backtrack ==
    /\ pc = "dfs"
    /\ LET top == frames[Len(frames)]
       IN  /\ top.i > Len(top.neighbors)
           /\ IF top.node_id \in recursion_stack
              THEN /\ recursion_stack' = stack_remove(recursion_stack, top.node_id)
                   /\ frames' = SubSeq(frames, 1, Len(frames) - 1)
                   /\ pc' = IF Len(frames) = 1 THEN "roots" ELSE "dfs"
                   /\ UNCHANGED error
              ELSE /\ error' = "KeyError"
                   /\ pc' = "raised"
                   /\ UNCHANGED <<recursion_stack, frames>>
    /\ UNCHANGED <<nodes, edges, script, call, pipeline, adj_list,
                   adjacency_list, visited, roots_left, results, entered>>

\* a has_cycle_dfs call returned True: its caller returns True at once,
\* has_cycle_dfs at line 79, detect_cycles at line 144
PropagateTrue ==
    /\ pc = "ret_true"
    /\ IF ~caller_returns_true(TRUE)
       THEN \* the caller goes on with its loop
            /\ pc' = IF frames # <<>> THEN "dfs" ELSE "roots"
            /\ UNCHANGED <<frames, results, call>>
       ELSE IF frames # <<>>
       THEN /\ frames' = SubSeq(frames, 1, Len(frames) - 1)
            /\ UNCHANGED <<pc, results, call>>
       ELSE /\ Return(TRUE)
            /\ UNCHANGED frames
    /\ UNCHANGED <<nodes, edges, script, pipeline, adj_list, adjacency_list,
                   visited, recursion_stack, roots_left, entered, error>>

\* the for loop of line 141 is exhausted: line 147
ReturnFalse ==
    /\ pc = "roots"
    /\ roots_left = {}
    /\ Return(FALSE)
    /\ UNCHANGED <<nodes, edges, script, pipeline, adj_list, adjacency_list,
                   visited, recursion_stack, roots_left, frames, entered, error>>

Next ==
    \/ ConstructPipeline
    \/ CallBuildAdjacencyList
    \/ DetectCyclesBegin
    \/ RootLoop
    \/ ExamineNeighbor
    \/ Backtrack
    \/ PropagateTrue
    \/ ReturnFalse

Spec == Init /\ [][Next]_vars

-----------------------------------------------------------------------------
(* The graph an input denotes, defined without the program's operators *)

\* ids of the entries that are nodes with a non-empty id
GraphNodes(ns) == {ns[i].id : i \in {j \in DOMAIN ns : ns[j] # NoneNode /\ ns[j].id # ""}}

\* positions of the edges with a non-empty id that join two graph nodes
AcceptedAt(ns, es) ==
    LET ids == GraphNodes(ns)
    IN  {i \in DOMAIN es : /\ es[i] # NoneEdge
                           /\ es[i].id # ""
                           /\ es[i].source \in ids
                           /\ es[i].target \in ids}

GraphArcs(ns, es) == {<<es[i].source, es[i].target>> : i \in AcceptedAt(ns, es)}

\* nodes reachable from the set S by at least one arc, by iteration to a
\* fixed point
RECURSIVE Closure(_, _)
Closure(R, arcs) ==
    LET more == R \cup {a[2] : a \in {b \in arcs : b[1] \in R}}
    IN  IF more = R THEN R ELSE Closure(more, arcs)

ReachableFrom(n, arcs) == Closure({a[2] : a \in {b \in arcs : b[1] = n}}, arcs)

\* some node reaches itself by at least one arc (a self-loop included)
HasDirectedCycle(ns, es) ==
    \E n \in GraphNodes(ns) : n \in ReachableFrom(n, GraphArcs(ns, es))

\* some node is reached from another along two different paths
HasTwoPaths(ns, es) ==
    \E a, b, c \in GraphNodes(ns) :
        /\ a # b /\ b # c /\ a # c
        /\ {<<a, b>>, <<b, c>>, <<a, c>>} \subseteq GraphArcs(ns, es)

\* number of neighbor entries of an adjacency map
RECURSIVE EntryCountOver(_, _)
EntryCountOver(adjacency, keys) ==
    IF keys = {} THEN 0
    ELSE LET k == CHOOSE x \in keys : TRUE
         IN  Len(adjacency[k]) + EntryCountOver(adjacency, keys \ {k})

EntryCount(adjacency) == EntryCountOver(adjacency, DOMAIN adjacency)

\* positions of the edges that have an empty id or a source or target that
\* is not a graph node
DanglingAt(ns, es) ==
    {i \in DOMAIN es : /\ es[i] # NoneEdge
                       /\ \/ es[i].id = ""
                          \/ es[i].source \notin GraphNodes(ns)
                          \/ es[i].target \notin GraphNodes(ns)}

\* the list es without the entries at the positions D
RECURSIVE Without(_, _, _)
Without(es, D, i) ==
    IF i > Len(es) THEN <<>>
    ELSE IF i \in D THEN Without(es, D, i + 1)
    ELSE <<es[i]>> \o Without(es, D, i + 1)

\* the two lists have the same entries, each the same number of times
SameEntries(es1, es2) ==
    /\ Len(es1) = Len(es2)
    /\ \A x \in Range(es1) \cup Range(es2) :
          Cardinality({i \in DOMAIN es1 : es1[i] = x})
              = Cardinality({i \in DOMAIN es2 : es2[i] = x})

NoValidNode(ns) == \A i \in DOMAIN ns : ns[i] = NoneNode \/ ns[i].id = ""

-----------------------------------------------------------------------------
(* Callers that repeat the calls on a second edge list *)

\* the pair of calls on one edge list and then on another
FourCallScript(es, es2) == PairScript(es) \o PairScript(es2)

\* the inputs of these callers: the graphs, with empty-id edges as well
InitVariantInputs ==
    /\ nodes \in GraphNodeLists
    /\ edges \in SeqsUpTo(GraphEdges \cup EmptyIdEdges, MaxVariantEdges)

\* the input `edges` is the first list with dangling or empty-id edges
\* added: the first list is `edges` without some of those
InitDangling ==
    /\ InitVariantInputs
    /\ \E D \in SUBSET DanglingAt(nodes, edges) :
          script = FourCallScript(Without(edges, D, 1), edges)
    /\ InitRest

SpecDangling == InitDangling /\ [][Next]_vars

\* the second edge list is a permutation of the first
InitOrder ==
    /\ InitVariantInputs
    /\ \E p \in Permutations(DOMAIN edges) :
          script = FourCallScript(edges, [i \in DOMAIN edges |-> edges[p[i]]])
    /\ InitRest

SpecOrder == InitOrder /\ [][Next]_vars

-----------------------------------------------------------------------------
(* Claims *)

\* C1: every value detect_cycles has returned is TRUE exactly when the
\* filtered graph of its arguments has a directed cycle (self-loops count);
\* so it is FALSE on every acyclic graph, diamonds included.
C1_CycleIffDetected ==
    \A k \in DOMAIN results :
        script[k].fn = "detect_cycles"
            => (results[k] <=> HasDirectedCycle(nodes, script[k].edges))

\* C1 witness: detect_cycles has returned FALSE on a graph in which a node
\* is reachable along two different paths.
C1_Witness ==
    /\ Len(results) >= 1
    /\ script[1].fn = "detect_cycles"
    /\ results[1] = FALSE
    /\ HasTwoPaths(nodes, script[1].edges)

\* C2: is_dag's value is the negation of detect_cycles's value on the same
\* arguments.
C2_IsDagNegatesDetectCycles ==
    \A j, k \in DOMAIN results :
        (/\ script[j].fn = "detect_cycles"
         /\ script[k].fn = "is_dag"
         /\ script[j].edges = script[k].edges)
            => (results[k] = ~results[j])

\* C2 witness: both calls were made on a cyclic graph.
C2_Witness ==
    /\ pc = "done"
    /\ script[1].edges = script[2].edges
    /\ results[1] = TRUE
    /\ results[2] = FALSE

\* C3: with no valid node (empty list, or only None and empty-id entries)
\* detect_cycles returns FALSE and is_dag TRUE whatever the edges are, and
\* has_cycle_dfs is never entered.
C3_NoValidNodeNoTraversal ==
    NoValidNode(nodes) =>
        /\ pc \notin {"roots", "dfs", "ret_true"}
        /\ frames = <<>>
        /\ \A n \in IdValues : entered[n] = 0
        /\ \A k \in DOMAIN results : results[k] = (script[k].fn = "is_dag")

\* C3 witness: both calls returned on a non-empty node list without a valid
\* node and with an edge that would be a self-loop.
C3_Witness ==
    /\ pc = "done"
    /\ NoValidNode(nodes)
    /\ Len(nodes) = 2
    /\ nodes[1] # nodes[2]
    /\ \E i \in DOMAIN edges : edges[i] = WorkflowEdge("e", "", "")
    /\ results = <<FALSE, TRUE>>

\* C4: the map build_adjacency_list returns has exactly the valid node ids
\* as keys (isolated nodes included) and every neighbor in it is a key; both
\* for the caller's direct call and for the call inside detect_cycles.
IsClosedMapOver(adjacency, ids) ==
    /\ DOMAIN adjacency = ids
    /\ \A k \in DOMAIN adjacency :
          \A i \in DOMAIN adjacency[k] : adjacency[k][i] \in DOMAIN adjacency

C4_KeysAreValidIdsAndClosed ==
    /\ pc \notin {"construct", "build"} => IsClosedMapOver(adj_list, GraphNodes(nodes))
    /\ pc \in {"roots", "dfs", "ret_true"}
          => IsClosedMapOver(adjacency_list, GraphNodes(nodes))

\* C4 witness: the direct call returned a map with a node without out-edges
\* as a key, from an input with a malformed node entry and an edge that was
\* not accepted.
C4_Witness ==
    /\ pc = "call"
    /\ \E i \in DOMAIN nodes : nodes[i] = NoneNode \/ nodes[i].id = ""
    /\ \E k \in DOMAIN adj_list : adj_list[k] = <<>>
    /\ \E i \in DOMAIN edges : edges[i] # NoneEdge /\ edges[i].id # ""
                                  /\ i \notin AcceptedAt(nodes, edges)

-----------------------------------------------------------------------------
(* Termination measure *)

\* what is left of one has_cycle_dfs call: its unexamined neighbors and its
\* return
FrameWork(f) == Len(f.neighbors) - f.i + 2

RECURSIVE SumWork(_)
SumWork(fs) == IF fs = <<>> THEN 0 ELSE FrameWork(Head(fs)) + SumWork(Tail(fs))

\* more than the work of any one frame
EnterWeight == Len(edges) + 3

\* what is left of the traversal of one detect_cycles call
CallWork ==
    Cardinality(IdValues \ visited) * EnterWeight
        + SumWork(frames) + Cardinality(roots_left) + 1

\* more than CallWork + 1 in any state
CallWeight == (Cardinality(IdValues) + 1) * EnterWeight + Cardinality(IdValues) + 3

Variant ==
    CASE pc = "construct" -> (Len(script) + 1) * CallWeight + 2
      [] pc = "build"     -> (Len(script) + 1) * CallWeight + 1
      [] pc = "call"      -> (Len(script) - call + 1) * CallWeight + CallWeight - 1
      [] pc \in {"roots", "dfs", "ret_true"}
                          -> (Len(script) - call + 1) * CallWeight + CallWork
      [] OTHER            -> 0

\* C6 (state part): no exception has been raised, every active has_cycle_dfs
\* call finds its node in the recursion stack, some step is possible until
\* the caller has all its results, and these are booleans.
C6_Safe ==
    /\ error = "none"
    /\ pc # "raised"
    /\ \A i \in DOMAIN frames : pc = "dfs" => frames[i].node_id \in recursion_stack
    /\ pc # "done" => ENABLED Next
    /\ Variant >= 0
    /\ pc = "done" => /\ Len(results) = Len(script)
                      /\ \A k \in DOMAIN results : results[k] \in BOOLEAN

\* C6: for every input shape build_adjacency_list, detect_cycles and is_dag
\* finish with a normal result and never raise: C6_Safe holds in every state
\* and every step lowers a non-negative measure, so every run ends with all
\* results returned; in particular recursion_stack.remove finds its node.
C6_NoErrorAndTermination == []C6_Safe /\ [][Variant' < Variant]_vars

\* C6 witness: all calls returned on an input with a None node, a None edge
\* and a self-loop.
C6_Witness ==
    /\ pc = "done"
    /\ error = "none"
    /\ \E i \in DOMAIN nodes : nodes[i] = NoneNode
    /\ \E i \in DOMAIN edges : edges[i] = NoneEdge
    /\ \E i \in DOMAIN edges : edges[i] # NoneEdge /\ edges[i].source = edges[i].target
                                  /\ edges[i].source \in GraphNodes(nodes)

\* C9: for node and edge lists without None entries, constructing the
\* pipeline raises exactly when some edge has a source or target that is not
\* the id of a listed node, the error names such an id of the first such
\* edge, and otherwise construction succeeds; an edge the validator rejects
\* is one the core functions drop without an error.
C9_PipelineRejectsMissingReferences ==
    (pc # "construct" /\ fields_valid(nodes, edges)) =>
        LET ids == {nodes[i].id : i \in DOMAIN nodes}
            missingRef == \E i \in DOMAIN edges :
                              edges[i].source \notin ids \/ edges[i].target \notin ids
        IN  /\ pipeline.outcome = (IF missingRef THEN "ValueError" ELSE "ok")
            /\ pipeline.outcome = "ValueError" =>
                  /\ pipeline.edge \in DOMAIN edges
                  /\ pipeline.missing \notin ids
                  /\ pipeline.missing \in {edges[pipeline.edge].source,
                                           edges[pipeline.edge].target}
                  /\ pipeline.edge \notin AcceptedAt(nodes, edges)
                  /\ error = "none"
                  /\ pc # "build" => EntryCount(adj_list) < Len(edges)

\* C9 witness: construction failed on a missing target (the case of
\* test_workflow_pipeline_validation) and the core calls then returned.
C9_Witness ==
    /\ pc = "done"
    /\ pipeline.outcome = "ValueError"
    /\ pipeline.field = "target"
    /\ pipeline.missing = "3"
    /\ results = <<FALSE, TRUE>>

\* C10: at every step the recursion stack is a subset of the visited set.
C10_StackSubsetOfVisited == recursion_stack \subseteq visited

\* C10 witness: a traversal is two calls deep and a third node is visited
\* but no longer on the stack.
C10_Witness ==
    /\ pc = "dfs"
    /\ Cardinality(recursion_stack) = 2
    /\ Cardinality(visited) = 3

\* C5: in the map build_adjacency_list returns, no entry comes from an edge
\* whose source or target is not a valid node id (the entries are as many as
\* the accepted edges, and such an edge's target is not listed under its
\* source); and detect_cycles and is_dag return the same on an edge list and
\* on that list with dangling or empty-id edges added.
C5_DanglingEdgesIgnored ==
    /\ pc \notin {"construct", "build"} =>
          /\ EntryCount(adj_list) = Cardinality(AcceptedAt(nodes, edges))
          /\ \A i \in DanglingAt(nodes, edges) :
                edges[i].id # "" =>
                   ~(/\ edges[i].source \in DOMAIN adj_list
                     /\ edges[i].target \in Range(adj_list[edges[i].source]))
    /\ \A j, k \in DOMAIN results :
          (/\ script[j].fn = script[k].fn
           /\ \E D \in SUBSET DanglingAt(nodes, script[k].edges) :
                 script[j].edges = Without(script[k].edges, D, 1))
             => results[j] = results[k]

\* C5 witness: the four calls returned, the later two on a list that has a
\* dangling edge and an empty-id edge more than the list of the earlier two,
\* where the empty-id edge would have closed a cycle.
C5_Witness ==
    /\ pc = "done"
    /\ Len(script[3].edges) = Len(script[1].edges) + 2
    /\ \E i \in DOMAIN edges : edges[i].id # "" /\ i \in DanglingAt(nodes, edges)
    /\ \E i \in DOMAIN edges :
          /\ Truthy(edges[i]) /\ edges[i].id = ""
          /\ edges[i].source \in GraphNodes(nodes)
          /\ edges[i].target \in GraphNodes(nodes)
    /\ results = <<FALSE, TRUE, FALSE, TRUE>>

\* C7: detect_cycles returns the same value whatever the order in which the
\* roots are taken and whatever the order of the edges: two calls whose edge
\* lists are permutations of each other, each with its own root order,
\* return the same.
C7_OrderIndependent ==
    \A j, k \in DOMAIN results :
        (/\ script[j].fn = "detect_cycles"
         /\ script[k].fn = "detect_cycles"
         /\ SameEntries(script[j].edges, script[k].edges))
            => results[j] = results[k]

\* C7 witness: two detect_cycles calls returned TRUE on differently ordered
\* edge lists of a graph with two nodes or more, of which one is on no cycle.
C7_Witness ==
    /\ Len(results) >= 3
    /\ script[1].edges # script[3].edges
    /\ results[1] = TRUE
    /\ results[3] = TRUE
    /\ \E n \in GraphNodes(nodes) : n \notin ReachableFrom(n, GraphArcs(nodes, edges))

\* C8: calls with identical arguments return identical values, and every
\* traversal starts with an empty visited set and an empty recursion stack
\* and holds in visited only nodes entered in the current call, whatever an
\* earlier call left.
C8_RepeatedCallsAgree ==
    /\ \A j, k \in DOMAIN results :
          (script[j].fn = script[k].fn /\ script[j].edges = script[k].edges)
             => results[j] = results[k]
    /\ (pc = "roots" /\ roots_left = GraphNodes(nodes)) =>
          visited = {} /\ recursion_stack = {}
    /\ pc \in {"roots", "dfs", "ret_true"} =>
          visited = {n \in IdValues : entered[n] > 0}

\* C8 witness: a call is about to start after an identical call returned
\* TRUE and left a non-empty recursion stack, and later all calls returned.
C8_Witness ==
    /\ pc = "done"
    /\ script[1].edges = script[3].edges
    /\ results = <<TRUE, FALSE, TRUE, FALSE>>
    /\ recursion_stack # {}

\* the states inside the traversal of a detect_cycles call
InTraversal == pc \in {"roots", "dfs", "ret_true"}

\* the arcs of the graph the current call works on
CurrentArcs == GraphArcs(nodes, script[call].edges)

\* C11: at every step of a traversal every node id in visited is fully
\* explored, so that all of its out-neighbors are in visited as well.
C11_VisitedFullyExplored ==
    InTraversal =>
        \A a \in CurrentArcs : a[1] \in visited => a[2] \in visited

\* What holds instead of C11: the out-neighbors of a visited node that is
\* no longer in the recursion stack are all in visited.
C11_FinishedFullyExplored ==
    InTraversal =>
        \A a \in CurrentArcs :
            a[1] \in visited \ recursion_stack => a[2] \in visited

\* C12 (one step): inside a traversal visited does not shrink, and a node
\* leaves the recursion stack only in the step in which the innermost
\* has_cycle_dfs call, which is the call for that node, has exhausted its
\* neighbors and returns; all its out-neighbors are then in visited and none
\* is in the recursion stack.
C12_Step ==
    InTraversal =>
        /\ visited \subseteq visited'
        /\ \A n \in recursion_stack \ recursion_stack' :
              /\ pc = "dfs"
              /\ frames[Len(frames)].node_id = n
              /\ frames[Len(frames)].i > Len(frames[Len(frames)].neighbors)
              /\ frames' = SubSeq(frames, 1, Len(frames) - 1)
              /\ recursion_stack' = recursion_stack \ {n}
              /\ n \in visited'
              /\ \A a \in CurrentArcs :
                    a[1] = n => a[2] \in visited /\ a[2] \notin recursion_stack

\* C12: a node is removed from the recursion stack only at its own
\* backtrack, when every one of its out-neighbors is in visited and not in
\* the recursion stack, and it stays in visited for the rest of the call.
C12_RemovedOnlyAtOwnBacktrack == [][C12_Step]_vars

\* C12 witness: a node with an out-neighbor has backtracked (it is visited
\* and off the stack) while its caller is still on the stack.
C12_Witness ==
    /\ pc = "dfs"
    /\ recursion_stack # {}
    /\ \E a \in CurrentArcs :
          /\ a[1] \in visited \ recursion_stack
          /\ a[2] \in visited \ recursion_stack
          /\ \E b \in CurrentArcs : b[1] \in recursion_stack /\ b[2] = a[1]

\* the innermost has_cycle_dfs call is about to examine a neighbor that is
\* in the recursion stack
AtBackEdge ==
    /\ pc = "dfs"
    /\ frames[Len(frames)].i <= Len(frames[Len(frames)].neighbors)
    /\ frames[Len(frames)].neighbors[frames[Len(frames)].i] \in recursion_stack

\* C13 (one step): the step that examines a neighbor in the recursion stack
\* returns True from the innermost call, and from then on every step only
\* returns True from the next caller: no frame advances to another neighbor,
\* visited, the recursion stack and the entry counts stay as they are, no
\* root is taken, and the step that leaves detect_cycles hands True to the
\* caller (False through is_dag).
C13_Step ==
    /\ AtBackEdge => pc' = "ret_true"
    /\ (AtBackEdge \/ pc = "ret_true") =>
          /\ visited' = visited
          /\ recursion_stack' = recursion_stack
          /\ entered' = entered
          /\ roots_left' = roots_left
          /\ \/ /\ frames # <<>>
                /\ frames' = SubSeq(frames, 1, Len(frames) - 1)
                /\ pc' = "ret_true"
                /\ results' = results
             \/ /\ frames = <<>>
                /\ frames' = frames
                /\ pc' \in {"call", "done"}
                /\ call' = call + 1
                /\ results' = Append(results, script[call].fn = "detect_cycles")

\* C13: as soon as a neighbor that is in the recursion stack is examined the
\* traversal stops and detect_cycles returns True.
C13_StopsAtBackEdge == [][C13_Step]_vars

\* C13 witness: detect_cycles has returned True from a back edge two calls
\* deep although a root was never taken and a node never visited.
C13_Witness ==
    /\ pc = "call"
    /\ call = 2
    /\ results = <<TRUE>>
    /\ Cardinality(recursion_stack) = 2
    /\ roots_left # {}
    /\ visited # GraphNodes(nodes)

\* the targets of the accepted edges of es whose source is k, in the order
\* of es: entry j is the target of the j-th such edge
TargetsOf(ns, es, k) ==
    LET at == {i \in AcceptedAt(ns, es) : es[i].source = k}
    IN  [j \in 1..Cardinality(at) |->
            es[CHOOSE i \in at : Cardinality({m \in at : m <= i}) = j].target]

\* C14: in the map build_adjacency_list returns, the neighbor list of each
\* node id is the sequence of the targets of the accepted edges with that
\* source, in input order, one entry per accepted edge; for the direct call
\* and for the call inside detect_cycles.
C14_NeighborsInEdgeOrder ==
    /\ pc \notin {"construct", "build"} =>
          \A k \in DOMAIN adj_list : adj_list[k] = TargetsOf(nodes, edges, k)
    /\ InTraversal =>
          \A k \in DOMAIN adjacency_list :
             adjacency_list[k] = TargetsOf(nodes, script[call].edges, k)

\* C14 witness: the direct call returned a neighbor list with a repeated
\* target (parallel edges) around a different one.
C14_Witness ==
    /\ pc = "call"
    /\ \E k \in DOMAIN adj_list :
          /\ Len(adj_list[k]) = 3
          /\ adj_list[k][1] = adj_list[k][3]
          /\ adj_list[k][1] # adj_list[k][2]

\* the value the last completed detect_cycles call returned
LastHasCycle ==
    IF script[call - 1].fn = "is_dag" THEN ~results[call - 1] ELSE results[call - 1]

=============================================================================
